---------------------------- MODULE Spec2Model ----------------------------
(***************************************************************************)
(* Stream switch configuration of an AI-engine tile                        *)
(* (driver/src/stream_switch/xaie_ss.c).                                   *)
(*                                                                         *)
(* The eight public entry points compute register offsets and 32-bit       *)
(* register words from a per-tile-type stream module descriptor and write  *)
(* them with XAieGbl_Write32.  The state is the device instance (whether   *)
(* it is null or ready), the registers behind XAieGbl_Write32 that hold a  *)
(* non-zero word (every other register holds the reset word zero) and the  *)
(* outcome of the call the caller has in hand (arguments, return code, the *)
(* writes it issued).                                                      *)
(*                                                                         *)
(* A 32-bit word is the set of the positions of its 1 bits (a subset of    *)
(* 0..31), so that bit 31 is representable and and/or/shift are computed   *)
(* bit by bit; the empty set is the all-zero word.                         *)
(*                                                                         *)
(* For calls made by two threads at once, thr holds each thread's position *)
(* in its call and its automatic variables, and regs0 the registers as     *)
(* they were before the two calls.                                         *)
(***************************************************************************)
EXTENDS Integers, Sequences, FiniteSets, TLC

VARIABLES DevInst, regs, pc, call, rc, writes, ncalls, thr, regs0

vars == <<DevInst, regs, pc, call, rc, writes, ncalls, thr, regs0>>

---------------------------------------------------------------------------
(* Bounds of the model *)

\* number of entry-point calls in one behaviour
MaxCalls == 2
\* port numbers passed by the caller are 0..MaxPortNum
MaxPortNum == 2
\* slot numbers passed by the caller are 0..MaxSlotNum
MaxSlotNum == 2

---------------------------------------------------------------------------
(* Constants of xaie_ss.c *)

XAIE_SS_MASTER_PORT_ARBITOR_LSB == 0
XAIE_SS_MASTER_PORT_ARBITOR_MASK == 7
XAIE_SS_MASTER_PORT_MSELEN_LSB == 3
XAIE_SS_MASTER_PORT_MSELEN_MASK == 120
XAIE_SS_ARBITOR_MAX == 7
XAIE_SS_MSEL_MAX == 3
XAIE_SS_MASK == 31
XAIE_SS_MSELEN_MAX == 15
XAIE_PACKETID_MAX == 31

(* Constants of the driver's headers *)

XAIE_ENABLE == 1
XAIE_DISABLE == 0
XAIE_COMPONENT_IS_READY == 1
XAIE_SS_PKT_DONOT_DROP_HEADER == 0
XAIE_SS_PKT_DROP_HEADER == 1

\* AieRC
XAIE_OK == "XAIE_OK"
XAIE_INVALID_ARGS == "XAIE_INVALID_ARGS"
XAIE_INVALID_TILE == "XAIE_INVALID_TILE"
XAIE_ERR_STREAM_PORT == "XAIE_ERR_STREAM_PORT"
\* the result kinds of the design that no path of xaie_ss.c returns
XAIE_INVALID_DEVICE == "XAIE_INVALID_DEVICE"
XAIE_INVALID_PORT_TYPE == "XAIE_INVALID_PORT_TYPE"

\* StrmSwPortType: the first port types of the enumeration and its sentinel
CORE == 0
DMA == 1
CTRL == 2
SS_PORT_TYPE_MAX == 3

\* tile types
XAIEGBL_TILE_TYPE_AIETILE == 0
XAIEGBL_TILE_TYPE_MAX == 4

---------------------------------------------------------------------------
(* Integers and 32-bit words *)

U8(x) == x % 256

\* the bits of n, the lowest of them placed at position i
RECURSIVE BitsFrom(_, _)
BitsFrom(n, i) ==
    IF n = 0 THEN {}
    ELSE (IF n % 2 = 1 THEN {i} ELSE {}) \cup BitsFrom(n \div 2, i + 1)

\* the word of a number 0 <= n < 2^31
Bits(n) == BitsFrom(n, 0)

\* the number of a word that has bit 31 clear
RECURSIVE Val(_)
Val(w) == IF w = {} THEN 0
          ELSE LET b == CHOOSE x \in w : TRUE IN 2^b + Val(w \ {b})

\* a word stored into a u8
U8W(w) == {b \in w : b < 8}

\* (((u32)Val << Lsb) & Mask)
XAie_SetField(V, Lsb, Mask) == {b \in Mask : (b - Lsb) \in V}

\* ((u32)(Val & Mask) >> Lsb)
XAie_GetField(V, Lsb, Mask) == {b - Lsb : b \in {x \in V \cap Mask : x >= Lsb}}

---------------------------------------------------------------------------
(* The device instance and the stream module descriptor of the AIE tile *)

\* XAie_StrmMod of the AIE tile
AieTileStrmSw ==
    [ SlvConfigBaseAddr |-> 256,
      PortOffset        |-> 4,
      NumSlaveSlots     |-> 2,
      SlotOffsetPerPort |-> 64,
      SlotOffset        |-> 4,
      MstrConfig    |-> << [NumPorts |-> 2, PortBaseAddr |-> 0],
                           [NumPorts |-> 1, PortBaseAddr |-> 8],
                           [NumPorts |-> 0, PortBaseAddr |-> 0] >>,
      SlvConfig     |-> << [NumPorts |-> 1, PortBaseAddr |-> 256],
                           [NumPorts |-> 2, PortBaseAddr |-> 260],
                           [NumPorts |-> 0, PortBaseAddr |-> 0] >>,
      SlvSlotConfig |-> << [NumPorts |-> 1, PortBaseAddr |-> 2048],
                           [NumPorts |-> 2, PortBaseAddr |-> 2112],
                           [NumPorts |-> 0, PortBaseAddr |-> 0] >>,
      SlvEn       |-> [Lsb |-> 31, Mask |-> {31}],
      SlvPktEn    |-> [Lsb |-> 30, Mask |-> {30}],
      MstrEn      |-> [Lsb |-> 31, Mask |-> {31}],
      MstrPktEn   |-> [Lsb |-> 30, Mask |-> {30}],
      DrpHdr      |-> [Lsb |-> 7,  Mask |-> {7}],
      Config      |-> [Lsb |-> 0,  Mask |-> 0..7],
      SlotPktId   |-> [Lsb |-> 24, Mask |-> 24..28],
      SlotMask    |-> [Lsb |-> 16, Mask |-> 16..20],
      SlotEn      |-> [Lsb |-> 8,  Mask |-> {8}],
      SlotMsel    |-> [Lsb |-> 4,  Mask |-> 4..5],
      SlotArbitor |-> [Lsb |-> 0,  Mask |-> 0..2] ]

\* the descriptor of a port type (the arrays are indexed from 0 in the C code)
Port(Table, PortType) == Table[PortType + 1]

\* DevInst->DevProp.DevMod[TileType].StrmSw
StrmSw(Dev, TileType) == Dev.DevMod[TileType]

\* a device instance: a null pointer, or an instance that is ready or not
Device(IsNull, IsReady) ==
    [ IsNull |-> IsNull, IsReady |-> IsReady,
      BaseAddr |-> 2^28, NumCols |-> 2,
      AieTileRowStart |-> 1, AieTileNumRows |-> 1,
      RowShift |-> 18, ColShift |-> 23,
      DevMod |-> [t \in {XAIEGBL_TILE_TYPE_AIETILE} |-> AieTileStrmSw] ]

\* _XAie_GetTileTypefromLoc
XAie_GetTileTypefromLoc(Dev, Loc) ==
    IF Loc.Col >= Dev.NumCols THEN XAIEGBL_TILE_TYPE_MAX
    ELSE IF Loc.Row >= Dev.AieTileRowStart
            /\ Loc.Row < Dev.AieTileRowStart + Dev.AieTileNumRows
         THEN XAIEGBL_TILE_TYPE_AIETILE
         ELSE XAIEGBL_TILE_TYPE_MAX

\* _XAie_GetTileAddr
XAie_GetTileAddr(Dev, Row, Col) == Row * (2^Dev.RowShift) + Col * (2^Dev.ColShift)

---------------------------------------------------------------------------
(* Arguments the caller passes *)

\* tile (1,1), and a tile in a column the array does not have
Locs == { [Row |-> 1, Col |-> 1], [Row |-> 1, Col |-> 2] }
\* every port type, and the sentinel as a tag outside the enumeration
PortTypes == 0..SS_PORT_TYPE_MAX
PortNums == 0..MaxPortNum
SlotNums == 0..MaxSlotNum
DropHeaders == {XAIE_SS_PKT_DONOT_DROP_HEADER, XAIE_SS_PKT_DROP_HEADER}
\* field values of the calls made in sequence: one in range, one out of range
ArbitorVals == {5, 8}
MSelEnVals == {10, 16}
MSelVals == {2, 4}
PktIdVals == {21, 32}
MaskVals == {27, 32}
SlotArbitorVals == {6, 8}
\* field values of a single call: every value up to the first one out of
\* range, or the values around the limit, and the largest u8
AnyArbitor == 0..8 \cup {255}
AnyMSelEn == 0..16 \cup {255}
AnyMSel == 0..4
AnyPktId == {0, 21, 31, 32, 255}
AnyMask == {0, 27, 31, 32, 155}

\* the arguments of a call; the arguments an entry point does not have are 0
Args(op, Loc, Slave, SlvPortNum, Master, MstrPortNum, SlotNum, DropHeader, Arbitor, MSelEn, PktId, Mask, MSel) ==
    [ op |-> op, Loc |-> Loc, Slave |-> Slave, SlvPortNum |-> SlvPortNum,
      Master |-> Master, MstrPortNum |-> MstrPortNum, SlotNum |-> SlotNum,
      DropHeader |-> DropHeader, Arbitor |-> Arbitor, MSelEn |-> MSelEn,
      PktId |-> PktId, Mask |-> Mask, MSel |-> MSel ]

NoLoc == [Row |-> 0, Col |-> 0]
NoCall == Args("none", NoLoc, 0, 0, 0, 0, 0, 0, 0, 0, 0, 0, 0)

\* the threads that call the entry points at the same time, and a thread
\* that is in no call
Threads == {1, 2}
IdleThread == [pc |-> "idle", call |-> NoCall, rc |-> XAIE_OK, pending |-> <<>>]

---------------------------------------------------------------------------
(* The internal routines: each returns its return code and its outputs *)

\* the range check of a port number, off by one
InvalidPort_OffByOne(PortPtr, PortNum) ==
    (PortPtr.NumPorts = 0) \/ (PortNum > PortPtr.NumPorts)

\* (PortPtr->NumPorts == 0) || (PortNum >= PortPtr->NumPorts)
InvalidPort(PortPtr, PortNum) ==
    (PortPtr.NumPorts = 0) \/ (PortNum >= PortPtr.NumPorts)

\* the slave index taken from the register offset, not from its distance to
\* the base of the slave registers
XAie_GetSlaveIdx_NoBase(StrmMod, Slave, PortNum) ==
    LET PortPtr  == Port(StrmMod.SlvConfig, Slave)
        RegAddr  == PortPtr.PortBaseAddr + StrmMod.PortOffset * PortNum
    IN  IF InvalidPort(PortPtr, PortNum)
        THEN [RC |-> XAIE_ERR_STREAM_PORT, SlaveIdx |-> 0]
        ELSE [RC |-> XAIE_OK, SlaveIdx |-> U8(RegAddr \div 4)]

\* _XAie_GetSlaveIdx
XAie_GetSlaveIdx(StrmMod, Slave, PortNum) ==
    LET BaseAddr == StrmMod.SlvConfigBaseAddr
        PortPtr  == Port(StrmMod.SlvConfig, Slave)
        RegAddr  == PortPtr.PortBaseAddr + StrmMod.PortOffset * PortNum
    IN  IF InvalidPort(PortPtr, PortNum)
        THEN [RC |-> XAIE_ERR_STREAM_PORT, SlaveIdx |-> 0]
        ELSE [RC |-> XAIE_OK, SlaveIdx |-> U8((RegAddr - BaseAddr) \div 4)]

\* the slave word framed without its enable field
XAie_StrmConfigSlv_NoEn(StrmMod, PortType, PortNum, Enable, PktEnable) ==
    LET PortPtr == Port(StrmMod.SlvConfig, PortType)
    IN  IF InvalidPort(PortPtr, PortNum)
        THEN [RC |-> XAIE_ERR_STREAM_PORT, RegVal |-> {}, RegOff |-> 0]
        ELSE LET RegOff == PortPtr.PortBaseAddr + StrmMod.PortOffset * PortNum
             IN  IF Enable # XAIE_ENABLE
                 THEN [RC |-> XAIE_OK, RegVal |-> {}, RegOff |-> RegOff]
                 ELSE [RC |-> XAIE_OK,
                       RegVal |-> XAie_SetField(Bits(PktEnable),
                                                StrmMod.SlvPktEn.Lsb,
                                                StrmMod.SlvPktEn.Mask),
                       RegOff |-> RegOff]

\* _XAie_StrmConfigSlv
XAie_StrmConfigSlv(StrmMod, PortType, PortNum, Enable, PktEnable) ==
    LET PortPtr == Port(StrmMod.SlvConfig, PortType)
    IN  IF InvalidPort(PortPtr, PortNum)
        THEN [RC |-> XAIE_ERR_STREAM_PORT, RegVal |-> {}, RegOff |-> 0]
        ELSE LET RegOff == PortPtr.PortBaseAddr + StrmMod.PortOffset * PortNum
             IN  IF Enable # XAIE_ENABLE
                 THEN [RC |-> XAIE_OK, RegVal |-> {}, RegOff |-> RegOff]
                 ELSE [RC |-> XAIE_OK,
                       RegVal |-> XAie_SetField(Bits(Enable), StrmMod.SlvEn.Lsb,
                                                StrmMod.SlvEn.Mask)
                                  \cup XAie_SetField(Bits(PktEnable),
                                                StrmMod.SlvPktEn.Lsb,
                                                StrmMod.SlvPktEn.Mask),
                       RegOff |-> RegOff]

\* the master word framed also when the port is being disabled
StrmConfigMstr_NoReset(StrmMod, PortType, PortNum, Enable, PktEnable, Config) ==
    LET PortPtr == Port(StrmMod.MstrConfig, PortType)
    IN  IF InvalidPort(PortPtr, PortNum)
        THEN [RC |-> XAIE_ERR_STREAM_PORT, RegVal |-> {}, RegOff |-> 0]
        ELSE [RC |-> XAIE_OK,
              RegVal |-> XAie_SetField(Bits(Enable), StrmMod.MstrEn.Lsb,
                                       StrmMod.MstrEn.Mask)
                         \cup XAie_SetField(Bits(PktEnable),
                                       StrmMod.MstrPktEn.Lsb,
                                       StrmMod.MstrPktEn.Mask)
                         \cup XAie_SetField(Config, StrmMod.Config.Lsb,
                                       StrmMod.Config.Mask),
              RegOff |-> PortPtr.PortBaseAddr + StrmMod.PortOffset * PortNum]

\* the master word framed without its packet enable field
StrmConfigMstr_NoPktEn(StrmMod, PortType, PortNum, Enable, PktEnable, Config) ==
    LET PortPtr == Port(StrmMod.MstrConfig, PortType)
    IN  IF InvalidPort(PortPtr, PortNum)
        THEN [RC |-> XAIE_ERR_STREAM_PORT, RegVal |-> {}, RegOff |-> 0]
        ELSE [RC |-> XAIE_OK,
              RegVal |-> IF Enable # XAIE_ENABLE THEN {}
                         ELSE XAie_SetField(Bits(Enable), StrmMod.MstrEn.Lsb,
                                            StrmMod.MstrEn.Mask)
                              \cup XAie_SetField(Config, StrmMod.Config.Lsb,
                                            StrmMod.Config.Mask),
              RegOff |-> PortPtr.PortBaseAddr + StrmMod.PortOffset * PortNum]

\* the master word framed without its enable field
StrmConfigMstr_NoEn(StrmMod, PortType, PortNum, Enable, PktEnable, Config) ==
    LET PortPtr == Port(StrmMod.MstrConfig, PortType)
    IN  IF InvalidPort(PortPtr, PortNum)
        THEN [RC |-> XAIE_ERR_STREAM_PORT, RegVal |-> {}, RegOff |-> 0]
        ELSE [RC |-> XAIE_OK,
              RegVal |-> IF Enable # XAIE_ENABLE THEN {}
                         ELSE XAie_SetField(Bits(PktEnable),
                                            StrmMod.MstrPktEn.Lsb,
                                            StrmMod.MstrPktEn.Mask)
                              \cup XAie_SetField(Config, StrmMod.Config.Lsb,
                                            StrmMod.Config.Mask),
              RegOff |-> PortPtr.PortBaseAddr + StrmMod.PortOffset * PortNum]

\* _StrmConfigMstr; Config is the u8 the caller's word was stored into
StrmConfigMstr(StrmMod, PortType, PortNum, Enable, PktEnable, Config) ==
    LET PortPtr == Port(StrmMod.MstrConfig, PortType)
    IN  IF InvalidPort(PortPtr, PortNum)
        THEN [RC |-> XAIE_ERR_STREAM_PORT, RegVal |-> {}, RegOff |-> 0]
        ELSE LET RegOff == PortPtr.PortBaseAddr + StrmMod.PortOffset * PortNum
                 DropHdr == U8W(XAie_GetField(Config, StrmMod.DrpHdr.Lsb,
                                              StrmMod.DrpHdr.Mask))
             IN  IF Enable # XAIE_ENABLE
                 THEN [RC |-> XAIE_OK, RegVal |-> {}, RegOff |-> RegOff]
                 ELSE [RC |-> XAIE_OK,
                       RegVal |-> XAie_SetField(Bits(Enable), StrmMod.MstrEn.Lsb,
                                                StrmMod.MstrEn.Mask)
                                  \cup XAie_SetField(Bits(PktEnable),
                                                StrmMod.MstrPktEn.Lsb,
                                                StrmMod.MstrPktEn.Mask)
                                  \cup XAie_SetField(DropHdr, StrmMod.DrpHdr.Lsb,
                                                StrmMod.DrpHdr.Mask)
                                  \cup XAie_SetField(Config, StrmMod.Config.Lsb,
                                                StrmMod.Config.Mask),
                       RegOff |-> RegOff]

\* the outcome of a call: its return code and the writes it issued, in order
Outcome(RC, Writes) == [RC |-> RC, Writes |-> Writes]

\* the device check without the test of IsReady
InvalidDevInst_NullOnly(Dev) == Dev.IsNull

\* DevInst == XAIE_NULL || DevInst->IsReady != XAIE_COMPONENT_IS_READY
InvalidDevInst(Dev) == Dev.IsNull \/ (Dev.IsReady # XAIE_COMPONENT_IS_READY)

\* the two writes of a circuit connection, the slave register first
CctWrites_SlaveFirst(MstrAddr, MstrVal, SlvAddr, SlvVal) ==
    << <<SlvAddr, SlvVal>>, <<MstrAddr, MstrVal>> >>

\* XAieGbl_Write32(MstrAddr, MstrVal); XAieGbl_Write32(SlvAddr, SlvVal);
CctWrites(MstrAddr, MstrVal, SlvAddr, SlvVal) ==
    << <<MstrAddr, MstrVal>>, <<SlvAddr, SlvVal>> >>

\* the master register written as soon as it is computed, before the slave
\* port is validated
XAie_StreamSwitchConfigureCct_EarlyWrite(Dev, Loc, Slave, SlvPortNum, Master, MstrPortNum, Enable) ==
    IF InvalidDevInst(Dev) THEN Outcome(XAIE_INVALID_ARGS, <<>>)
    ELSE IF (Slave >= SS_PORT_TYPE_MAX) \/ (Master >= SS_PORT_TYPE_MAX)
    THEN Outcome(XAIE_ERR_STREAM_PORT, <<>>)
    ELSE LET TileType == XAie_GetTileTypefromLoc(Dev, Loc) IN
    IF TileType = XAIEGBL_TILE_TYPE_MAX THEN Outcome(XAIE_INVALID_TILE, <<>>)
    ELSE LET StrmMod == StrmSw(Dev, TileType)
             M == StrmConfigMstr(StrmMod, Master, MstrPortNum, Enable,
                                 XAIE_DISABLE, {})
             MstrAddr == Dev.BaseAddr + M.RegOff
                         + XAie_GetTileAddr(Dev, Loc.Row, Loc.Col) IN
    IF M.RC # XAIE_OK THEN Outcome(M.RC, <<>>)
    ELSE LET S == XAie_StrmConfigSlv(StrmMod, Slave, SlvPortNum, Enable,
                                     XAIE_DISABLE)
             SlvAddr  == Dev.BaseAddr + S.RegOff
                         + XAie_GetTileAddr(Dev, Loc.Row, Loc.Col) IN
    IF S.RC # XAIE_OK THEN Outcome(S.RC, << <<MstrAddr, M.RegVal>> >>)
    ELSE Outcome(XAIE_OK, CctWrites(MstrAddr, M.RegVal, SlvAddr, S.RegVal))

\* _XAie_StreamSwitchConfigureCct
XAie_StreamSwitchConfigureCct(Dev, Loc, Slave, SlvPortNum, Master, MstrPortNum, Enable) ==
    IF InvalidDevInst(Dev) THEN Outcome(XAIE_INVALID_ARGS, <<>>)
    ELSE IF (Slave >= SS_PORT_TYPE_MAX) \/ (Master >= SS_PORT_TYPE_MAX)
    THEN Outcome(XAIE_ERR_STREAM_PORT, <<>>)
    ELSE LET TileType == XAie_GetTileTypefromLoc(Dev, Loc) IN
    IF TileType = XAIEGBL_TILE_TYPE_MAX THEN Outcome(XAIE_INVALID_TILE, <<>>)
    ELSE LET StrmMod == StrmSw(Dev, TileType)
             Idx == XAie_GetSlaveIdx(StrmMod, Slave, SlvPortNum) IN
    IF Idx.RC # XAIE_OK THEN Outcome(Idx.RC, <<>>)
    ELSE LET M == StrmConfigMstr(StrmMod, Master, MstrPortNum, Enable,
                                 XAIE_DISABLE, Bits(Idx.SlaveIdx)) IN
    IF M.RC # XAIE_OK THEN Outcome(M.RC, <<>>)
    ELSE LET S == XAie_StrmConfigSlv(StrmMod, Slave, SlvPortNum, Enable,
                                     XAIE_DISABLE) IN
    IF S.RC # XAIE_OK THEN Outcome(S.RC, <<>>)
    ELSE LET MstrAddr == Dev.BaseAddr + M.RegOff
                         + XAie_GetTileAddr(Dev, Loc.Row, Loc.Col)
             SlvAddr  == Dev.BaseAddr + S.RegOff
                         + XAie_GetTileAddr(Dev, Loc.Row, Loc.Col)
         IN  Outcome(XAIE_OK, CctWrites(MstrAddr, M.RegVal, SlvAddr, S.RegVal))

\* _XAie_StrmSlavePortConfig; it hands EnPkt to _XAie_StrmConfigSlv as Enable
\* and Enable as PktEnable
XAie_StrmSlavePortConfig(Dev, Loc, Slave, SlvPortNum, EnPkt, Enable) ==
    IF InvalidDevInst(Dev) THEN Outcome(XAIE_INVALID_ARGS, <<>>)
    ELSE IF Slave >= SS_PORT_TYPE_MAX THEN Outcome(XAIE_ERR_STREAM_PORT, <<>>)
    ELSE LET TileType == XAie_GetTileTypefromLoc(Dev, Loc) IN
    IF TileType = XAIEGBL_TILE_TYPE_MAX THEN Outcome(XAIE_INVALID_TILE, <<>>)
    ELSE LET StrmMod == StrmSw(Dev, TileType)
             S == XAie_StrmConfigSlv(StrmMod, Slave, SlvPortNum, EnPkt, Enable) IN
    IF S.RC # XAIE_OK THEN Outcome(S.RC, <<>>)
    ELSE LET Addr == Dev.BaseAddr + XAie_GetTileAddr(Dev, Loc.Row, Loc.Col)
                     + S.RegOff
         IN  Outcome(XAIE_OK, << <<Addr, S.RegVal>> >>)

\* (Arbitor > XAIE_SS_ARBITOR_MAX) || (MSelEn > XAIE_SS_MSELEN_MAX)
InvalidMstrArgs(Arbitor, MSelEn) ==
    (Arbitor > XAIE_SS_ARBITOR_MAX) \/ (MSelEn > XAIE_SS_MSELEN_MAX)

\* _XAie_StrmPktSwMstrPortConfig
XAie_StrmPktSwMstrPortConfig(Dev, Loc, Master, MstrPortNum, DropHeader, Arbitor, MSelEn, PktEn, Enable) ==
    IF InvalidDevInst(Dev) THEN Outcome(XAIE_INVALID_ARGS, <<>>)
    ELSE IF InvalidMstrArgs(Arbitor, MSelEn)
    THEN Outcome(XAIE_INVALID_ARGS, <<>>)
    ELSE IF Master >= SS_PORT_TYPE_MAX THEN Outcome(XAIE_ERR_STREAM_PORT, <<>>)
    ELSE LET TileType == XAie_GetTileTypefromLoc(Dev, Loc) IN
    IF TileType = XAIEGBL_TILE_TYPE_MAX THEN Outcome(XAIE_INVALID_TILE, <<>>)
    ELSE LET StrmMod == StrmSw(Dev, TileType)
             Config ==
                 IF Enable = XAIE_ENABLE
                 THEN XAie_SetField(Bits(DropHeader), StrmMod.DrpHdr.Lsb,
                                    StrmMod.DrpHdr.Mask)
                      \cup XAie_SetField(Bits(Arbitor),
                                    XAIE_SS_MASTER_PORT_ARBITOR_LSB,
                                    Bits(XAIE_SS_MASTER_PORT_ARBITOR_MASK))
                      \cup XAie_SetField(Bits(MSelEn),
                                    XAIE_SS_MASTER_PORT_MSELEN_LSB,
                                    Bits(XAIE_SS_MASTER_PORT_MSELEN_MASK))
                 ELSE {}
             M == StrmConfigMstr(StrmMod, Master, MstrPortNum, Enable, PktEn,
                                 U8W(Config)) IN
    IF M.RC # XAIE_OK THEN Outcome(M.RC, <<>>)
    ELSE LET Addr == Dev.BaseAddr + XAie_GetTileAddr(Dev, Loc.Row, Loc.Col)
                     + M.RegOff
         IN  Outcome(XAIE_OK, << <<Addr, M.RegVal>> >>)

\* the slot offset with the two strides exchanged
SlotRegOff_StridesSwapped(StrmMod, Slave, SlvPortNum, SlotNum) ==
    Port(StrmMod.SlvSlotConfig, Slave).PortBaseAddr
    + SlvPortNum * StrmMod.SlotOffset
    + SlotNum * StrmMod.SlotOffsetPerPort

\* the offset of a slot register in its tile
SlotRegOff(StrmMod, Slave, SlvPortNum, SlotNum) ==
    Port(StrmMod.SlvSlotConfig, Slave).PortBaseAddr
    + SlvPortNum * StrmMod.SlotOffsetPerPort
    + SlotNum * StrmMod.SlotOffset

\* the slot field checks with the packet id limit off by one
InvalidSlotArgs_PktIdOffByOne(Arbitor, MSel, Mask, PktId) ==
    (Arbitor > XAIE_SS_ARBITOR_MAX) \/ (MSel > XAIE_SS_MSEL_MAX)
    \/ (Bits(Mask) \ Bits(XAIE_SS_MASK) # {})
    \/ (PktId >= XAIE_PACKETID_MAX)

\* (Arbitor > XAIE_SS_ARBITOR_MAX) || (MSel > XAIE_SS_MSEL_MAX) ||
\* (Mask & ~XAIE_SS_MASK) || (Pkt.PktId > XAIE_PACKETID_MAX)
InvalidSlotArgs(Arbitor, MSel, Mask, PktId) ==
    (Arbitor > XAIE_SS_ARBITOR_MAX) \/ (MSel > XAIE_SS_MSEL_MAX)
    \/ (Bits(Mask) \ Bits(XAIE_SS_MASK) # {})
    \/ (PktId > XAIE_PACKETID_MAX)

\* the slot configurator resolving the tile before it checks the fields
XAie_StrmSlaveSlotConfig_TileFirst(Dev, Loc, Slave, SlvPortNum, SlotNum, PktId, Mask, MSel, Arbitor, Enable) ==
    IF InvalidDevInst(Dev) THEN Outcome(XAIE_INVALID_ARGS, <<>>)
    ELSE LET TileType == XAie_GetTileTypefromLoc(Dev, Loc) IN
    IF TileType = XAIEGBL_TILE_TYPE_MAX THEN Outcome(XAIE_INVALID_TILE, <<>>)
    ELSE IF InvalidSlotArgs(Arbitor, MSel, Mask, PktId)
    THEN Outcome(XAIE_INVALID_ARGS, <<>>)
    ELSE LET StrmMod == StrmSw(Dev, TileType) IN
    IF (Slave >= SS_PORT_TYPE_MAX) \/ (SlotNum >= StrmMod.NumSlaveSlots)
       \/ (SlvPortNum >= Port(StrmMod.SlvConfig, Slave).NumPorts)
    THEN Outcome(XAIE_ERR_STREAM_PORT, <<>>)
    ELSE LET RegAddr == Dev.BaseAddr + XAie_GetTileAddr(Dev, Loc.Row, Loc.Col)
                        + SlotRegOff(StrmMod, Slave, SlvPortNum, SlotNum)
             RegVal ==
                 IF Enable = XAIE_ENABLE
                 THEN XAie_SetField(Bits(PktId), StrmMod.SlotPktId.Lsb,
                                    StrmMod.SlotPktId.Mask)
                      \cup XAie_SetField(Bits(Mask), StrmMod.SlotMask.Lsb,
                                    StrmMod.SlotMask.Mask)
                      \cup XAie_SetField(Bits(XAIE_ENABLE), StrmMod.SlotEn.Lsb,
                                    StrmMod.SlotEn.Mask)
                      \cup XAie_SetField(Bits(MSel), StrmMod.SlotMsel.Lsb,
                                    StrmMod.SlotMsel.Mask)
                      \cup XAie_SetField(Bits(Arbitor), StrmMod.SlotArbitor.Lsb,
                                    StrmMod.SlotArbitor.Mask)
                 ELSE {}
         IN  Outcome(XAIE_OK, << <<RegAddr, RegVal>> >>)

\* _XAie_StrmSlaveSlotConfig
XAie_StrmSlaveSlotConfig(Dev, Loc, Slave, SlvPortNum, SlotNum, PktId, Mask, MSel, Arbitor, Enable) ==
    IF InvalidDevInst(Dev) THEN Outcome(XAIE_INVALID_ARGS, <<>>)
    ELSE IF InvalidSlotArgs(Arbitor, MSel, Mask, PktId)
    THEN Outcome(XAIE_INVALID_ARGS, <<>>)
    ELSE LET TileType == XAie_GetTileTypefromLoc(Dev, Loc) IN
    IF TileType = XAIEGBL_TILE_TYPE_MAX THEN Outcome(XAIE_INVALID_TILE, <<>>)
    ELSE LET StrmMod == StrmSw(Dev, TileType) IN
    IF (Slave >= SS_PORT_TYPE_MAX) \/ (SlotNum >= StrmMod.NumSlaveSlots)
       \/ (SlvPortNum >= Port(StrmMod.SlvConfig, Slave).NumPorts)
    THEN Outcome(XAIE_ERR_STREAM_PORT, <<>>)
    ELSE LET RegAddr == Dev.BaseAddr + XAie_GetTileAddr(Dev, Loc.Row, Loc.Col)
                        + SlotRegOff(StrmMod, Slave, SlvPortNum, SlotNum)
             RegVal ==
                 IF Enable = XAIE_ENABLE
                 THEN XAie_SetField(Bits(PktId), StrmMod.SlotPktId.Lsb,
                                    StrmMod.SlotPktId.Mask)
                      \cup XAie_SetField(Bits(Mask), StrmMod.SlotMask.Lsb,
                                    StrmMod.SlotMask.Mask)
                      \cup XAie_SetField(Bits(XAIE_ENABLE), StrmMod.SlotEn.Lsb,
                                    StrmMod.SlotEn.Mask)
                      \cup XAie_SetField(Bits(MSel), StrmMod.SlotMsel.Lsb,
                                    StrmMod.SlotMsel.Mask)
                      \cup XAie_SetField(Bits(Arbitor), StrmMod.SlotArbitor.Lsb,
                                    StrmMod.SlotArbitor.Mask)
                 ELSE {}
         IN  Outcome(XAIE_OK, << <<RegAddr, RegVal>> >>)

---------------------------------------------------------------------------
(* The register file *)

\* the device instance the caller passes
Inst == Device(DevInst.IsNull, DevInst.IsReady)

\* the addresses the entry points can be asked to write: a register for
\* every port and slot number a caller passes, in every tile of the array
RegAddrs ==
    LET Tiles == {L \in Locs : XAie_GetTileTypefromLoc(Inst, L) # XAIEGBL_TILE_TYPE_MAX}
        Offs(L) ==
            LET Mod == StrmSw(Inst, XAie_GetTileTypefromLoc(Inst, L)) IN
            { Port(Mod.MstrConfig, t).PortBaseAddr + Mod.PortOffset * p :
                 t \in 0..(SS_PORT_TYPE_MAX - 1), p \in 0..MaxPortNum }
            \cup { Port(Mod.SlvConfig, t).PortBaseAddr + Mod.PortOffset * p :
                 t \in 0..(SS_PORT_TYPE_MAX - 1), p \in 0..MaxPortNum }
            \cup { SlotRegOff(Mod, t, p, s) :
                 t \in 0..(SS_PORT_TYPE_MAX - 1), p \in 0..MaxPortNum,
                 s \in 0..MaxSlotNum }
    IN  UNION { { Inst.BaseAddr + XAie_GetTileAddr(Inst, L.Row, L.Col) + o : o \in Offs(L) }
                : L \in Tiles }

\* the word a register holds
Reg(r, Addr) == IF Addr \in DOMAIN r THEN r[Addr] ELSE {}

\* XAieGbl_Write32
XAieGbl_Write32(r, Addr, Value) ==
    [a \in {x \in DOMAIN r \cup {Addr} : x # Addr \/ Value # {}} |->
        IF a = Addr THEN Value ELSE r[a]]

\* the register file after a sequence of writes
RECURSIVE Commit(_, _)
Commit(r, ws) ==
    IF ws = <<>> THEN r
    ELSE Commit(XAieGbl_Write32(r, Head(ws)[1], Head(ws)[2]), Tail(ws))

---------------------------------------------------------------------------
(* The entry points *)

\* the caller holds no result and may call an entry point
CanCall == pc = "idle" /\ ncalls < MaxCalls

\* a call of an entry point by the caller, run to its return
Call(args, out) ==
    /\ pc' = "returned"
    /\ ncalls' = ncalls + 1
    /\ call' = args
    /\ rc' = out.RC
    /\ writes' = out.Writes
    /\ regs' = Commit(regs, out.Writes)
    /\ UNCHANGED <<DevInst, thr, regs0>>

XAie_StrmConnCctEnable ==
    /\ CanCall
    /\ \E Loc \in Locs, Slave \in PortTypes, SlvPortNum \in PortNums,
       Master \in PortTypes, MstrPortNum \in PortNums :
        Call(Args("XAie_StrmConnCctEnable", Loc, Slave, SlvPortNum, Master,
                  MstrPortNum, 0, 0, 0, 0, 0, 0, 0),
             XAie_StreamSwitchConfigureCct(Inst, Loc, Slave, SlvPortNum,
                                           Master, MstrPortNum, XAIE_ENABLE))

XAie_StrmConnCctDisable ==
    /\ CanCall
    /\ \E Loc \in Locs, Slave \in PortTypes, SlvPortNum \in PortNums,
       Master \in PortTypes, MstrPortNum \in PortNums :
        Call(Args("XAie_StrmConnCctDisable", Loc, Slave, SlvPortNum, Master,
                  MstrPortNum, 0, 0, 0, 0, 0, 0, 0),
             XAie_StreamSwitchConfigureCct(Inst, Loc, Slave, SlvPortNum,
                                           Master, MstrPortNum, XAIE_DISABLE))

XAie_StrmPktSwSlavePortEnable ==
    /\ CanCall
    /\ \E Loc \in Locs, Slave \in PortTypes, SlvPortNum \in PortNums :
        Call(Args("XAie_StrmPktSwSlavePortEnable", Loc, Slave, SlvPortNum,
                  0, 0, 0, 0, 0, 0, 0, 0, 0),
             XAie_StrmSlavePortConfig(Inst, Loc, Slave, SlvPortNum,
                                      XAIE_ENABLE, XAIE_ENABLE))

XAie_StrmPktSwSlavePortDisable ==
    /\ CanCall
    /\ \E Loc \in Locs, Slave \in PortTypes, SlvPortNum \in PortNums :
        Call(Args("XAie_StrmPktSwSlavePortDisable", Loc, Slave, SlvPortNum,
                  0, 0, 0, 0, 0, 0, 0, 0, 0),
             XAie_StrmSlavePortConfig(Inst, Loc, Slave, SlvPortNum,
                                      XAIE_DISABLE, XAIE_DISABLE))

\* XAie_StrmPktSwMstrPortEnable with field values of the given sets
MstrPortEnable(Arbitors, MSelEns) ==
    /\ CanCall
    /\ \E Loc \in Locs, Master \in PortTypes, MstrPortNum \in PortNums,
       DropHeader \in DropHeaders, Arbitor \in Arbitors,
       MSelEn \in MSelEns :
        Call(Args("XAie_StrmPktSwMstrPortEnable", Loc, 0, 0, Master,
                  MstrPortNum, 0, DropHeader, Arbitor, MSelEn, 0, 0, 0),
             XAie_StrmPktSwMstrPortConfig(Inst, Loc, Master, MstrPortNum,
                                          DropHeader, Arbitor, MSelEn,
                                          XAIE_ENABLE, XAIE_ENABLE))

XAie_StrmPktSwMstrPortEnable == MstrPortEnable(ArbitorVals, MSelEnVals)

XAie_StrmPktSwMstrPortDisable ==
    /\ CanCall
    /\ \E Loc \in Locs, Master \in PortTypes, MstrPortNum \in PortNums :
        Call(Args("XAie_StrmPktSwMstrPortDisable", Loc, 0, 0, Master,
                  MstrPortNum, 0, 0, 0, 0, 0, 0, 0),
             XAie_StrmPktSwMstrPortConfig(Inst, Loc, Master, MstrPortNum,
                                          XAIE_SS_PKT_DONOT_DROP_HEADER, 0, 0,
                                          XAIE_DISABLE, XAIE_DISABLE))

\* XAie_StrmPktSwSlaveSlotEnable with field values of the given sets
SlaveSlotEnable(PktIds, Masks, MSels, Arbitors) ==
    /\ CanCall
    /\ \E Loc \in Locs, Slave \in PortTypes, SlvPortNum \in PortNums,
       SlotNum \in SlotNums, PktId \in PktIds, Mask \in Masks,
       MSel \in MSels, Arbitor \in Arbitors :
        Call(Args("XAie_StrmPktSwSlaveSlotEnable", Loc, Slave, SlvPortNum,
                  0, 0, SlotNum, 0, Arbitor, 0, PktId, Mask, MSel),
             XAie_StrmSlaveSlotConfig(Inst, Loc, Slave, SlvPortNum, SlotNum,
                                      PktId, Mask, MSel, Arbitor, XAIE_ENABLE))

XAie_StrmPktSwSlaveSlotEnable ==
    SlaveSlotEnable(PktIdVals, MaskVals, MSelVals, SlotArbitorVals)

XAie_StrmPktSwSlaveSlotDisable ==
    /\ CanCall
    /\ \E Loc \in Locs, Slave \in PortTypes, SlvPortNum \in PortNums,
       SlotNum \in SlotNums :
        Call(Args("XAie_StrmPktSwSlaveSlotDisable", Loc, Slave, SlvPortNum,
                  0, 0, SlotNum, 0, 0, 0, 0, 0, 0),
             XAie_StrmSlaveSlotConfig(Inst, Loc, Slave, SlvPortNum, SlotNum,
                                      0, 0, 0, 0, XAIE_DISABLE))

\* the caller takes the result of the call and is free to call again
Return ==
    /\ pc = "returned"
    /\ pc' = "idle"
    /\ call' = NoCall
    /\ rc' = XAIE_OK
    /\ writes' = <<>>
    /\ UNCHANGED <<DevInst, regs, ncalls, thr, regs0>>

Init ==
    /\ DevInst \in { [IsNull |-> TRUE, IsReady |-> 0],
                     [IsNull |-> FALSE, IsReady |-> 0],
                     [IsNull |-> FALSE, IsReady |-> XAIE_COMPONENT_IS_READY] }
    /\ regs = <<>>
    /\ pc = "idle"
    /\ call = NoCall
    /\ rc = XAIE_OK
    /\ writes = <<>>
    /\ ncalls = 0
    /\ thr = [t \in Threads |-> IdleThread]
    /\ regs0 = <<>>

Next ==
    \/ XAie_StrmConnCctEnable
    \/ XAie_StrmConnCctDisable
    \/ XAie_StrmPktSwSlavePortEnable
    \/ XAie_StrmPktSwSlavePortDisable
    \/ XAie_StrmPktSwMstrPortEnable
    \/ XAie_StrmPktSwMstrPortDisable
    \/ XAie_StrmPktSwSlaveSlotEnable
    \/ XAie_StrmPktSwSlaveSlotDisable
    \/ Return

Spec == Init /\ [][Next]_vars

(* One call with any field values: the register builders as functions of *)
(* their arguments.                                                      *)

MstrPortEnableAnyArgs == ncalls = 0 /\ MstrPortEnable(AnyArbitor, AnyMSelEn)

SlaveSlotEnableAnyArgs ==
    ncalls = 0 /\ SlaveSlotEnable(AnyPktId, AnyMask, AnyMSel, AnyArbitor)

NextArgs ==
    \/ MstrPortEnableAnyArgs
    \/ SlaveSlotEnableAnyArgs

SpecArgs == Init /\ [][NextArgs]_vars

(* Two threads, each in one call.  A call is entered, runs its checks and *)
(* computes its words from its arguments and the descriptors, then issues *)
(* its writes one at a time; the steps of the two calls interleave.       *)

\* an entry point called with the arguments c: the internal routine it
\* calls and the constants it passes
Entry(Dev, c) ==
    CASE c.op = "XAie_StrmConnCctEnable" ->
            XAie_StreamSwitchConfigureCct(Dev, c.Loc, c.Slave, c.SlvPortNum,
                                          c.Master, c.MstrPortNum, XAIE_ENABLE)
      [] c.op = "XAie_StrmConnCctDisable" ->
            XAie_StreamSwitchConfigureCct(Dev, c.Loc, c.Slave, c.SlvPortNum,
                                          c.Master, c.MstrPortNum, XAIE_DISABLE)
      [] c.op = "XAie_StrmPktSwSlavePortEnable" ->
            XAie_StrmSlavePortConfig(Dev, c.Loc, c.Slave, c.SlvPortNum,
                                     XAIE_ENABLE, XAIE_ENABLE)
      [] c.op = "XAie_StrmPktSwSlavePortDisable" ->
            XAie_StrmSlavePortConfig(Dev, c.Loc, c.Slave, c.SlvPortNum,
                                     XAIE_DISABLE, XAIE_DISABLE)
      [] c.op = "XAie_StrmPktSwMstrPortEnable" ->
            XAie_StrmPktSwMstrPortConfig(Dev, c.Loc, c.Master, c.MstrPortNum,
                                         c.DropHeader, c.Arbitor, c.MSelEn,
                                         XAIE_ENABLE, XAIE_ENABLE)
      [] c.op = "XAie_StrmPktSwMstrPortDisable" ->
            XAie_StrmPktSwMstrPortConfig(Dev, c.Loc, c.Master, c.MstrPortNum,
                                         XAIE_SS_PKT_DONOT_DROP_HEADER, 0, 0,
                                         XAIE_DISABLE, XAIE_DISABLE)
      [] c.op = "XAie_StrmPktSwSlaveSlotEnable" ->
            XAie_StrmSlaveSlotConfig(Dev, c.Loc, c.Slave, c.SlvPortNum,
                                     c.SlotNum, c.PktId, c.Mask, c.MSel,
                                     c.Arbitor, XAIE_ENABLE)
      [] c.op = "XAie_StrmPktSwSlaveSlotDisable" ->
            XAie_StrmSlaveSlotConfig(Dev, c.Loc, c.Slave, c.SlvPortNum,
                                     c.SlotNum, 0, 0, 0, 0, XAIE_DISABLE)

\* two tiles of the array, and a location outside it
Tile11 == [Row |-> 1, Col |-> 1]
Tile10 == [Row |-> 1, Col |-> 0]
NoTile == [Row |-> 1, Col |-> 2]

\* the calls the threads make: every entry point, on ports and slots of one
\* tile and of another, and calls that fail
ThreadCalls ==
    { Args("XAie_StrmConnCctEnable", Tile11, CORE, 0, CORE, 0, 0, 0, 0, 0, 0, 0, 0),
      Args("XAie_StrmConnCctEnable", Tile11, DMA, 1, CORE, 1, 0, 0, 0, 0, 0, 0, 0),
      Args("XAie_StrmConnCctDisable", Tile11, CORE, 0, CORE, 0, 0, 0, 0, 0, 0, 0, 0),
      Args("XAie_StrmConnCctEnable", Tile11, DMA, 0, DMA, 0, 0, 0, 0, 0, 0, 0, 0),
      Args("XAie_StrmConnCctEnable", Tile10, CORE, 0, CORE, 0, 0, 0, 0, 0, 0, 0, 0),
      Args("XAie_StrmPktSwSlavePortEnable", Tile11, DMA, 0, 0, 0, 0, 0, 0, 0, 0, 0, 0),
      Args("XAie_StrmPktSwSlavePortDisable", Tile11, CORE, 0, 0, 0, 0, 0, 0, 0, 0, 0, 0),
      Args("XAie_StrmPktSwMstrPortEnable", Tile11, 0, 0, CORE, 1, 0,
           XAIE_SS_PKT_DROP_HEADER, 5, 10, 0, 0, 0),
      Args("XAie_StrmPktSwMstrPortDisable", Tile11, 0, 0, DMA, 0, 0, 0, 0, 0, 0, 0, 0),
      Args("XAie_StrmPktSwSlaveSlotEnable", Tile11, DMA, 1, 0, 0, 0, 0, 6, 0, 21, 27, 2),
      Args("XAie_StrmPktSwSlaveSlotEnable", Tile10, DMA, 1, 0, 0, 0, 0, 3, 0, 9, 31, 1),
      Args("XAie_StrmPktSwSlaveSlotDisable", Tile11, CORE, 0, 0, 0, 1, 0, 0, 0, 0, 0, 0),
      Args("XAie_StrmConnCctEnable", Tile11, CORE, 0, CORE, 2, 0, 0, 0, 0, 0, 0, 0),
      Args("XAie_StrmPktSwSlaveSlotEnable", NoTile, DMA, 1, 0, 0, 0, 0, 6, 0, 21, 27, 2) }

\* the registers before the two calls: all Reset, or as two earlier calls
\* on a ready device left them
StartRegs ==
    { <<>>,
      Commit(<<>>,
             Entry(Device(FALSE, XAIE_COMPONENT_IS_READY),
                   Args("XAie_StrmConnCctEnable", Tile11, DMA, 1, CORE, 0,
                        0, 0, 0, 0, 0, 0, 0)).Writes
             \o Entry(Device(FALSE, XAIE_COMPONENT_IS_READY),
                      Args("XAie_StrmPktSwSlaveSlotEnable", Tile11, CORE, 0,
                           0, 0, 1, 0, 4, 0, 17, 15, 3)).Writes) }

\* thread t enters an entry point with its arguments
ThreadCall(t) ==
    /\ thr[t].pc = "idle"
    /\ \E c \in ThreadCalls :
           thr' = [thr EXCEPT ![t] = [pc |-> "entered", call |-> c,
                                      rc |-> XAIE_OK, pending |-> <<>>]]
    /\ UNCHANGED <<DevInst, regs, pc, call, rc, writes, ncalls, regs0>>

\* thread t runs the checks of its call and computes the words and the
\* addresses into its automatic variables; a failed check returns at once
ThreadValidate(t) ==
    /\ thr[t].pc = "entered"
    /\ LET out == Entry(Inst, thr[t].call) IN
           thr' = [thr EXCEPT ![t].pc = IF out.Writes = <<>> THEN "done"
                                        ELSE "writing",
                              ![t].rc = out.RC,
                              ![t].pending = out.Writes]
    /\ UNCHANGED <<DevInst, regs, pc, call, rc, writes, ncalls, regs0>>

\* the next write of thread t with the word kept in storage the threads
\* share: the word is the one the other thread computed, if it has one
PendingWrite_Shared(th, t) ==
    LET Others == {u \in Threads : u # t /\ th[u].pending # <<>>} IN
    IF Others = {} THEN Head(th[t].pending)
    ELSE <<Head(th[t].pending)[1],
           Head(th[CHOOSE u \in Others : TRUE].pending)[2]>>

\* the address and the word of the next write of thread t: its own
\* automatic variables
PendingWrite(th, t) == Head(th[t].pending)

\* thread t issues its next XAieGbl_Write32, and returns after its last
ThreadWrite(t) ==
    /\ thr[t].pc = "writing"
    /\ LET w == PendingWrite(thr, t) IN
           /\ regs' = XAieGbl_Write32(regs, w[1], w[2])
           /\ writes' = Append(writes, w)
    /\ thr' = [thr EXCEPT ![t].pending = Tail(@),
                          ![t].pc = IF Len(thr[t].pending) = 1 THEN "done"
                                    ELSE "writing"]
    /\ UNCHANGED <<DevInst, pc, call, rc, ncalls, regs0>>

InitThreads ==
    /\ DevInst \in { [IsNull |-> TRUE, IsReady |-> 0],
                     [IsNull |-> FALSE, IsReady |-> 0],
                     [IsNull |-> FALSE, IsReady |-> XAIE_COMPONENT_IS_READY] }
    /\ regs \in IF InvalidDevInst(DevInst) THEN {<<>>} ELSE StartRegs
    /\ regs0 = regs
    /\ pc = "idle"
    /\ call = NoCall
    /\ rc = XAIE_OK
    /\ writes = <<>>
    /\ ncalls = 0
    /\ thr = [t \in Threads |-> IdleThread]

NextThreads ==
    \/ \E t \in Threads : ThreadCall(t)
    \/ \E t \in Threads : ThreadValidate(t)
    \/ \E t \in Threads : ThreadWrite(t)

SpecThreads == InitThreads /\ [][NextThreads]_vars

\* the types of the caller's state and of the registers, in Spec and SpecArgs
TypeOK ==
    /\ pc \in {"idle", "returned"}
    /\ ncalls \in 0..MaxCalls
    /\ rc \in {XAIE_OK, XAIE_INVALID_ARGS, XAIE_INVALID_TILE, XAIE_ERR_STREAM_PORT}
    /\ DOMAIN regs \subseteq RegAddrs
    /\ \A a \in DOMAIN regs : regs[a] # {} /\ regs[a] \subseteq 0..31

---------------------------------------------------------------------------
(* Vocabulary of the properties *)

CctOps == {"XAie_StrmConnCctEnable", "XAie_StrmConnCctDisable"}
SlavePortOps == {"XAie_StrmPktSwSlavePortEnable", "XAie_StrmPktSwSlavePortDisable"}
MstrPortOps == {"XAie_StrmPktSwMstrPortEnable", "XAie_StrmPktSwMstrPortDisable"}
SlotOps == {"XAie_StrmPktSwSlaveSlotEnable", "XAie_StrmPktSwSlaveSlotDisable"}
DisableOps == {"XAie_StrmConnCctDisable", "XAie_StrmPktSwSlavePortDisable",
               "XAie_StrmPktSwMstrPortDisable", "XAie_StrmPktSwSlaveSlotDisable"}

\* the caller holds the result of a call of one of the entry points ops
Returned(ops) == pc = "returned" /\ call.op \in ops

\* the device is there and ready
Ready == ~DevInst.IsNull /\ DevInst.IsReady = 1

\* the array's geometry and descriptors, the same whatever the state of the
\* instance
Array == Device(FALSE, XAIE_COMPONENT_IS_READY)

\* the location is a tile of the array
Resolved(Loc) == XAie_GetTileTypefromLoc(Array, Loc) # XAIEGBL_TILE_TYPE_MAX

\* the descriptor of the tile at a resolved location, and the tile's base
ModOf(Loc) == StrmSw(Array, XAie_GetTileTypefromLoc(Array, Loc))
TileBase(Loc) == Array.BaseAddr + XAie_GetTileAddr(Array, Loc.Row, Loc.Col)

\* the port type is a tag of the enumeration
InEnum(t) == t \in {CORE, DMA, CTRL}

\* the port type is unsupported or the port number is not below its count
OutOfRange(PortPtr, p) == PortPtr.NumPorts = 0 \/ ~(p < PortPtr.NumPorts)

\* base(type) + portStride * port, in the tile at Loc
MstrRegAddr(Loc, t, p) ==
    TileBase(Loc) + Port(ModOf(Loc).MstrConfig, t).PortBaseAddr
    + ModOf(Loc).PortOffset * p
SlvRegAddr(Loc, t, p) ==
    TileBase(Loc) + Port(ModOf(Loc).SlvConfig, t).PortBaseAddr
    + ModOf(Loc).PortOffset * p

\* slotBase(type) + port * slotOffsetPerPort + slot * slotOffset, in the tile
SlotRegAddr(Loc, t, p, n) ==
    TileBase(Loc) + Port(ModOf(Loc).SlvSlotConfig, t).PortBaseAddr
    + p * ModOf(Loc).SlotOffsetPerPort + n * ModOf(Loc).SlotOffset

\* the value of field f read back from word w
Field(w, f) == Val(XAie_GetField(w, f.Lsb, f.Mask))

\* which arguments an entry point has
UsesSlave(op) == op \in CctOps \cup SlavePortOps \cup SlotOps
UsesMaster(op) == op \in CctOps \cup MstrPortOps
UsesSlot(op) == op \in SlotOps

\* the classes of violated preconditions of a call c
DevBad == DevInst.IsNull \/ DevInst.IsReady # 1
TypeBad(c) == \/ UsesSlave(c.op) /\ ~InEnum(c.Slave)
              \/ UsesMaster(c.op) /\ ~InEnum(c.Master)
TileBad(c) == ~Resolved(c.Loc)
PortBad(c) ==
    /\ Resolved(c.Loc)
    /\ \/ UsesSlave(c.op) /\ InEnum(c.Slave)
          /\ OutOfRange(Port(ModOf(c.Loc).SlvConfig, c.Slave), c.SlvPortNum)
       \/ UsesMaster(c.op) /\ InEnum(c.Master)
          /\ OutOfRange(Port(ModOf(c.Loc).MstrConfig, c.Master), c.MstrPortNum)
       \/ UsesSlot(c.op) /\ ~(c.SlotNum < ModOf(c.Loc).NumSlaveSlots)
FieldBad(c) ==
    \/ c.op = "XAie_StrmPktSwMstrPortEnable" /\ (c.Arbitor > 7 \/ c.MSelEn > 15)
    \/ c.op = "XAie_StrmPktSwSlaveSlotEnable"
       /\ (c.Arbitor > 7 \/ c.MSel > 3 \/ c.Mask \div 32 # 0 \/ c.PktId > 31)

\* the registers of the slave ports of the array
SlvRegAddrs ==
    { SlvRegAddr(L, t, p) : L \in {x \in Locs : Resolved(x)},
                            t \in {CORE, DMA, CTRL}, p \in PortNums }

---------------------------------------------------------------------------
(* C1 *)

\* C1: a ConnectCircuit or DisconnectCircuit call that returns an error has
\* issued no register write, and the registers are as they were before it.
C1_NoWriteOnError ==
    [][ (pc' = "returned" /\ call'.op \in CctOps /\ rc' # XAIE_OK)
        => (writes' = <<>> /\ regs' = regs) ]_vars

\* a circuit call with a valid master port and an invalid slave port failed,
\* after an earlier call had configured a register
C1_Witness ==
    /\ Returned(CctOps) /\ rc = XAIE_ERR_STREAM_PORT
    /\ Ready /\ Resolved(call.Loc) /\ InEnum(call.Slave) /\ InEnum(call.Master)
    /\ ~OutOfRange(Port(ModOf(call.Loc).MstrConfig, call.Master), call.MstrPortNum)
    /\ OutOfRange(Port(ModOf(call.Loc).SlvConfig, call.Slave), call.SlvPortNum)
    /\ regs # <<>>

---------------------------------------------------------------------------
(* C2 *)

\* C2: a successful ConnectCircuit issues exactly two writes, the master
\* register first: master-enable set, master-packet-enable clear and the
\* routing select equal to the index the resolver returns for the slave port;
\* then the slave register: slave-enable set, slave-packet-enable clear.
C2_ConnectWrites ==
    (Returned({"XAie_StrmConnCctEnable"}) /\ rc = XAIE_OK) =>
        LET M == ModOf(call.Loc)
            Idx == XAie_GetSlaveIdx(M, call.Slave, call.SlvPortNum)
        IN  /\ Len(writes) = 2
            /\ writes[1][1] = MstrRegAddr(call.Loc, call.Master, call.MstrPortNum)
            /\ Field(writes[1][2], M.MstrEn) = 1
            /\ Field(writes[1][2], M.MstrPktEn) = 0
            /\ Idx.RC = XAIE_OK
            /\ Field(writes[1][2], M.Config) = Idx.SlaveIdx
            /\ writes[2][1] = SlvRegAddr(call.Loc, call.Slave, call.SlvPortNum)
            /\ Field(writes[2][2], M.SlvEn) = 1
            /\ Field(writes[2][2], M.SlvPktEn) = 0
            /\ Reg(regs, writes[1][1]) = writes[1][2]
            /\ Reg(regs, writes[2][1]) = writes[2][2]

\* DMA slave port 1 was connected to CORE master port 1
C2_Witness ==
    /\ Returned({"XAie_StrmConnCctEnable"}) /\ rc = XAIE_OK
    /\ call.Slave = DMA /\ call.SlvPortNum = 1
    /\ call.Master = CORE /\ call.MstrPortNum = 1
    /\ Len(writes) = 2

---------------------------------------------------------------------------
(* C3 *)

\* the enable call that matches a disable call: the same port arguments
MatchingEnable(c) ==
    CASE c.op = "XAie_StrmConnCctDisable" ->
            XAie_StreamSwitchConfigureCct(Inst, c.Loc, c.Slave, c.SlvPortNum,
                                          c.Master, c.MstrPortNum, XAIE_ENABLE)
      [] c.op = "XAie_StrmPktSwSlavePortDisable" ->
            XAie_StrmSlavePortConfig(Inst, c.Loc, c.Slave, c.SlvPortNum,
                                     XAIE_ENABLE, XAIE_ENABLE)
      [] c.op = "XAie_StrmPktSwMstrPortDisable" ->
            XAie_StrmPktSwMstrPortConfig(Inst, c.Loc, c.Master, c.MstrPortNum,
                                         XAIE_SS_PKT_DROP_HEADER, 5, 10,
                                         XAIE_ENABLE, XAIE_ENABLE)
      [] c.op = "XAie_StrmPktSwSlaveSlotDisable" ->
            XAie_StrmSlaveSlotConfig(Inst, c.Loc, c.Slave, c.SlvPortNum,
                                     c.SlotNum, 21, 27, 2, 6, XAIE_ENABLE)

\* C3: a successful disable call writes the all-zero word to exactly the
\* addresses the matching enable call writes, whatever the registers held,
\* and leaves those registers zero.
C3_DisableResets ==
    (Returned(DisableOps) /\ rc = XAIE_OK) =>
        LET E == MatchingEnable(call)
        IN  /\ E.RC = XAIE_OK
            /\ Len(writes) = Len(E.Writes)
            /\ Len(writes) = IF call.op \in CctOps THEN 2 ELSE 1
            /\ \A i \in 1..Len(writes) :
                  /\ writes[i][1] = E.Writes[i][1]
                  /\ E.Writes[i][2] # {}
                  /\ writes[i][2] = {}
                  /\ Reg(regs, writes[i][1]) = {}

\* a circuit was disconnected after an earlier call, and another register
\* is still configured
C3_Witness ==
    /\ Returned({"XAie_StrmConnCctDisable"}) /\ rc = XAIE_OK
    /\ ncalls = 2
    /\ call.Slave = DMA /\ call.SlvPortNum = 1
    /\ regs # <<>>

---------------------------------------------------------------------------
(* C4 *)

\* C4: EnablePacketSwitchMasterPort returns InvalidArgs and writes nothing
\* when arbitration > 7 or selectEnable > 15; EnablePacketSwitchSlaveSlot
\* does when arbitration > 7, selectValue > 3, mask has a bit outside its low
\* 5 bits or packetId > 31; with every field within those bounds, on a ready
\* device, a valid tile and a valid port and slot, neither returns InvalidArgs.
C4_FieldBounds ==
    (Returned({"XAie_StrmPktSwMstrPortEnable", "XAie_StrmPktSwSlaveSlotEnable"})) =>
        /\ FieldBad(call) =>
              /\ rc = XAIE_INVALID_ARGS
              /\ writes = <<>>
              /\ regs = <<>>
        /\ (~FieldBad(call) /\ ~DevBad /\ ~TileBad(call) /\ ~TypeBad(call)
            /\ ~PortBad(call)) => rc = XAIE_OK

\* a slot call whose only fault is bit 5 of the mask was rejected
C4_Witness ==
    /\ Returned({"XAie_StrmPktSwSlaveSlotEnable"})
    /\ call.Mask = 32 /\ call.Arbitor = 7 /\ call.MSel = 3 /\ call.PktId = 31
    /\ ~DevBad /\ ~TileBad(call) /\ ~TypeBad(call) /\ ~PortBad(call)
    /\ rc = XAIE_INVALID_ARGS

---------------------------------------------------------------------------
(* C5 *)

\* C5 as claimed: on a ready device, a call that references an unsupported
\* port type or an out-of-range port or slot number of the resolved tile type
\* always returns the invalid-port error and writes nothing, whatever its
\* other arguments are.
C5_AlwaysInvalidPort ==
    (pc = "returned" /\ Ready /\ PortBad(call)) =>
        (rc = XAIE_ERR_STREAM_PORT /\ writes = <<>>)

\* C5: such a call never writes a register; on a ready device it returns the
\* invalid-port error, unless one of its field values is out of range, which
\* is checked first and returns InvalidArgs.
C5_InvalidPort ==
    (pc = "returned" /\ PortBad(call)) =>
        /\ writes = <<>>
        /\ Ready => rc = IF FieldBad(call) THEN XAIE_INVALID_ARGS
                         ELSE XAIE_ERR_STREAM_PORT

\* a slot call on the unsupported slave type CTRL, its fields in range,
\* returned the invalid-port error
C5_Witness ==
    /\ Returned({"XAie_StrmPktSwSlaveSlotEnable"})
    /\ Ready /\ Resolved(call.Loc)
    /\ call.Slave = CTRL /\ call.SlvPortNum = 0 /\ call.SlotNum = 0
    /\ ~FieldBad(call)
    /\ rc = XAIE_ERR_STREAM_PORT /\ writes = <<>>

---------------------------------------------------------------------------
(* C6 *)

\* (baseAddr(type) + portStride * port - slaveBaseAddr) / 4
SlaveIndexFormula(M, t, p) ==
    (Port(M.SlvConfig, t).PortBaseAddr + M.PortOffset * p
     - M.SlvConfigBaseAddr) \div 4

\* the valid slave ports of a descriptor
ValidSlaves(M) ==
    { tp \in {CORE, DMA, CTRL} \X (0..MaxPortNum) :
          tp[2] < Port(M.SlvConfig, tp[1]).NumPorts }

\* a descriptor with slaveBaseAddr 0x100 and a slave type at 0x120, stride 4
ExampleStrmMod ==
    [ AieTileStrmSw EXCEPT !.SlvConfig =
          << [NumPorts |-> 8, PortBaseAddr |-> 256],
             [NumPorts |-> 3, PortBaseAddr |-> 288],
             [NumPorts |-> 0, PortBaseAddr |-> 0] >> ]

\* C6: the index of a valid slave port is exactly
\* (baseAddr + portStride * port - slaveBaseAddr) / 4, it reaches the master
\* register's routing select unchanged, and no other valid slave port of the
\* tile type resolves to it.
C6_SlaveIndex ==
    (Returned({"XAie_StrmConnCctEnable"}) /\ rc = XAIE_OK) =>
        LET M == ModOf(call.Loc)
            Idx == SlaveIndexFormula(M, call.Slave, call.SlvPortNum)
        IN  /\ XAie_GetSlaveIdx(M, call.Slave, call.SlvPortNum)
                  = [RC |-> XAIE_OK, SlaveIdx |-> Idx]
            /\ Field(writes[1][2], M.Config) = Idx
            /\ \A tp \in ValidSlaves(M) :
                  tp # <<call.Slave, call.SlvPortNum>>
                  => XAie_GetSlaveIdx(M, tp[1], tp[2]).SlaveIdx # Idx
            /\ XAie_GetSlaveIdx(ExampleStrmMod, DMA, 2)
                  = [RC |-> XAIE_OK, SlaveIdx |-> 10]

\* the second DMA slave port, of index 2, was connected
C6_Witness ==
    /\ Returned({"XAie_StrmConnCctEnable"}) /\ rc = XAIE_OK
    /\ call.Slave = DMA /\ call.SlvPortNum = 1
    /\ Field(writes[1][2], ModOf(call.Loc).Config) = 2

---------------------------------------------------------------------------
(* C7 *)

\* bits lo..hi of word w, as a number
BitsOf(w, lo, hi) == Val({b - lo : b \in {x \in w : x >= lo /\ x <= hi}})

\* C7: a successful EnablePacketSwitchMasterPort writes one word to the master
\* port's address: master-enable and master-packet-enable set, the drop-header
\* field equal to dropHeader, the generic-config field holding arbitration in
\* bits 0..2, selectEnable in bits 3..6 and the drop-header bit again, and
\* nothing else; the three arguments read back unchanged.
C7_MstrPortWord ==
    (Returned({"XAie_StrmPktSwMstrPortEnable"}) /\ rc = XAIE_OK) =>
        LET M == ModOf(call.Loc)
            w == writes[1][2]
            cfg == XAie_GetField(w, M.Config.Lsb, M.Config.Mask)
        IN  /\ Len(writes) = 1
            /\ writes[1][1] = MstrRegAddr(call.Loc, call.Master, call.MstrPortNum)
            /\ Reg(regs, writes[1][1]) = w
            /\ Field(w, M.MstrEn) = 1
            /\ Field(w, M.MstrPktEn) = 1
            /\ Field(w, M.DrpHdr) = call.DropHeader
            /\ BitsOf(cfg, 0, 2) = call.Arbitor
            /\ BitsOf(cfg, 3, 6) = call.MSelEn
            /\ Field(cfg, M.DrpHdr) = call.DropHeader
            /\ Val(cfg) = call.Arbitor + 8 * call.MSelEn + 128 * call.DropHeader
            /\ w \subseteq (M.MstrEn.Mask \cup M.MstrPktEn.Mask
                            \cup M.DrpHdr.Mask \cup M.Config.Mask)

\* a master port was enabled with the largest arbitration and selectEnable
\* and with the header dropped
C7_Witness ==
    /\ Returned({"XAie_StrmPktSwMstrPortEnable"}) /\ rc = XAIE_OK
    /\ call.Arbitor = 7 /\ call.MSelEn = 15
    /\ call.DropHeader = XAIE_SS_PKT_DROP_HEADER
    /\ Len(writes) = 1

---------------------------------------------------------------------------
(* C8 *)

\* C8: a successful EnablePacketSwitchSlaveSlot issues one write, to
\* slotBaseAddr(type) + port * slotOffsetPerPort + slot * slotOffset in the
\* tile; the word holds the packet id, mask, select and arbitration supplied
\* and slot-enable 1 and nothing else; no other valid port and slot of the
\* slave type has that address.
C8_SlotWord ==
    (Returned({"XAie_StrmPktSwSlaveSlotEnable"}) /\ rc = XAIE_OK) =>
        LET M == ModOf(call.Loc)
            w == writes[1][2]
        IN  /\ Len(writes) = 1
            /\ writes[1][1] = SlotRegAddr(call.Loc, call.Slave, call.SlvPortNum,
                                          call.SlotNum)
            /\ Reg(regs, writes[1][1]) = w
            /\ Field(w, M.SlotPktId) = call.PktId
            /\ Field(w, M.SlotMask) = call.Mask
            /\ Field(w, M.SlotMsel) = call.MSel
            /\ Field(w, M.SlotArbitor) = call.Arbitor
            /\ Field(w, M.SlotEn) = 1
            /\ w \subseteq (M.SlotPktId.Mask \cup M.SlotMask.Mask \cup M.SlotEn.Mask
                            \cup M.SlotMsel.Mask \cup M.SlotArbitor.Mask)
            /\ \A p \in 0..(Port(M.SlvConfig, call.Slave).NumPorts - 1),
                  n \in 0..(M.NumSlaveSlots - 1) :
                  <<p, n>> # <<call.SlvPortNum, call.SlotNum>>
                  => SlotRegOff(M, call.Slave, p, n)
                     # writes[1][1] - TileBase(call.Loc)
            /\ SlotRegOff(AieTileStrmSw, CORE, 0, 3) = 2060

\* slot 1 of the second DMA slave port was enabled with non-zero fields
C8_Witness ==
    /\ Returned({"XAie_StrmPktSwSlaveSlotEnable"}) /\ rc = XAIE_OK
    /\ call.Slave = DMA /\ call.SlvPortNum = 1 /\ call.SlotNum = 1
    /\ call.PktId = 21 /\ call.Mask = 27 /\ call.MSel = 2 /\ call.Arbitor = 5
    /\ Len(writes) = 1

---------------------------------------------------------------------------
(* C9 *)

\* the word has packet mode set and port enable clear
PktWithoutEn(w, M) == Field(w, M.SlvPktEn) = 1 /\ Field(w, M.SlvEn) = 0

\* C9: EnablePacketSwitchSlavePort writes one word to the slave port's
\* register, slave-enable and slave-packet-enable set and nothing else;
\* DisablePacketSwitchSlavePort writes the all-zero word there; and no call
\* of an entry point writes a slave register with packet mode set and port
\* enable clear.
C9_SlavePktPort ==
    /\ (Returned(SlavePortOps) /\ rc = XAIE_OK) =>
          LET M == ModOf(call.Loc)
          IN  /\ Len(writes) = 1
              /\ writes[1][1] = SlvRegAddr(call.Loc, call.Slave, call.SlvPortNum)
              /\ Reg(regs, writes[1][1]) = writes[1][2]
              /\ writes[1][2] =
                    IF call.op = "XAie_StrmPktSwSlavePortEnable"
                    THEN M.SlvEn.Mask \cup M.SlvPktEn.Mask
                    ELSE {}
    /\ pc = "returned" =>
          \A i \in 1..Len(writes) :
              writes[i][1] \in SlvRegAddrs
              => ~PktWithoutEn(writes[i][2], ModOf(call.Loc))
    /\ \A a \in SlvRegAddrs : ~PktWithoutEn(Reg(regs, a), AieTileStrmSw)

\* a slave port was enabled for packet switching
C9_Witness ==
    /\ Returned({"XAie_StrmPktSwSlavePortEnable"}) /\ rc = XAIE_OK
    /\ Len(writes) = 1
    /\ Field(writes[1][2], ModOf(call.Loc).SlvPktEn) = 1

---------------------------------------------------------------------------
(* C10 *)

\* the violated classes of a call, among the five
Violated(c) ==
    (IF DevBad THEN {"device"} ELSE {})
    \cup (IF TileBad(c) THEN {"tile"} ELSE {})
    \cup (IF TypeBad(c) THEN {"type"} ELSE {})
    \cup (IF PortBad(c) THEN {"port"} ELSE {})
    \cup (IF FieldBad(c) THEN {"field"} ELSE {})

---------------------------------------------------------------------------
(* C11 *)

\* the ports of type t a tile has, and the slots of a port
PortsOf(Table, t) == {p \in PortNums : ~OutOfRange(Port(Table, t), p)}
SlotsOf(M) == {n \in SlotNums : n < M.NumSlaveSlots}

\* the (tile, port type, port number) triples of the ports in Table
PortsIn(Table) ==
    { x \in Locs \X {CORE, DMA, CTRL} \X PortNums :
          Resolved(x[1]) /\ x[3] \in PortsOf(Table, x[2]) }

\* the slave port, master port and slave slot registers the array has
SlvPortRegs ==
    { SlvRegAddr(x[1], x[2], x[3]) : x \in PortsIn(AieTileStrmSw.SlvConfig) }
MstrPortRegs ==
    { MstrRegAddr(x[1], x[2], x[3]) : x \in PortsIn(AieTileStrmSw.MstrConfig) }
SlotRegs ==
    { SlotRegAddr(x[1], x[2], x[3], n) :
          x \in PortsIn(AieTileStrmSw.SlvConfig), n \in SlotsOf(AieTileStrmSw) }

\* the word is Reset, or Configured with enable field f set
ResetOrConfigured(w, f) == w = {} \/ Field(w, f) = 1

\* C11: starting from all registers Reset, after any sequence of calls of the
\* eight entry points every slave port register, master port register and
\* slave slot register holds the all-zero word or a word whose enable field
\* (slave-enable, master-enable, slot-enable) is set, and no other address
\* holds a non-zero word.
C11_ResetOrConfigured ==
    /\ DOMAIN regs \subseteq (SlvPortRegs \cup MstrPortRegs \cup SlotRegs)
    /\ \A a \in SlvPortRegs :
           ResetOrConfigured(Reg(regs, a), AieTileStrmSw.SlvEn)
    /\ \A a \in MstrPortRegs :
           ResetOrConfigured(Reg(regs, a), AieTileStrmSw.MstrEn)
    /\ \A a \in SlotRegs :
           ResetOrConfigured(Reg(regs, a), AieTileStrmSw.SlotEn)
    /\ pc = "returned" =>
           \A i \in 1..Len(writes) :
               LET a == writes[i][1]
                   w == writes[i][2]
               IN  /\ a \in SlvPortRegs
                        => ResetOrConfigured(w, AieTileStrmSw.SlvEn)
                   /\ a \in MstrPortRegs
                        => ResetOrConfigured(w, AieTileStrmSw.MstrEn)
                   /\ a \in SlotRegs
                        => ResetOrConfigured(w, AieTileStrmSw.SlotEn)

\* a disable call has just written the all-zero word to a register while a
\* master port register configured by an earlier call is still Configured
C11_Witness ==
    /\ Returned(DisableOps) /\ rc = XAIE_OK
    /\ Len(writes) >= 1
    /\ \A i \in 1..Len(writes) : Reg(regs, writes[i][1]) = {}
    /\ \E a \in MstrPortRegs :
           /\ Reg(regs, a) # {}
           /\ Field(Reg(regs, a), AieTileStrmSw.MstrEn) = 1

---------------------------------------------------------------------------
(* C12 *)

\* the registers a call is aimed at, from its arguments alone
TargetsOf(c) ==
    IF ~Resolved(c.Loc) \/ TypeBad(c) THEN {}
    ELSE (IF UsesMaster(c.op)
          THEN {MstrRegAddr(c.Loc, c.Master, c.MstrPortNum)} ELSE {})
         \cup (IF UsesSlave(c.op) /\ ~UsesSlot(c.op)
               THEN {SlvRegAddr(c.Loc, c.Slave, c.SlvPortNum)} ELSE {})
         \cup (IF UsesSlot(c.op)
               THEN {SlotRegAddr(c.Loc, c.Slave, c.SlvPortNum, c.SlotNum)}
               ELSE {})

\* the two calls run one after the other, c first: the return codes and the
\* registers they leave
Sequential(r, c, d) ==
    LET A == Entry(Inst, c)
        B == Entry(Inst, d)
    IN  [first |-> A.RC, second |-> B.RC,
         regs |-> Commit(Commit(r, A.Writes), B.Writes)]

\* both threads have returned from their calls
BothDone == \A t \in Threads : thr[t].pc = "done"

\* the two calls are aimed at disjoint sets of registers
DisjointTargets == TargetsOf(thr[1].call) \cap TargetsOf(thr[2].call) = {}

\* C12: when two threads have each run one entry-point call and the calls
\* are aimed at disjoint registers, then whatever the interleaving of their
\* checks and writes, the return codes and the final registers are those of
\* running the two calls one after the other, in either order.
C12_DisjointCallsCommute ==
    (BothDone /\ DisjointTargets) =>
        LET S12 == Sequential(regs0, thr[1].call, thr[2].call)
            S21 == Sequential(regs0, thr[2].call, thr[1].call)
        IN  /\ regs = S12.regs /\ regs = S21.regs
            /\ thr[1].rc = S12.first /\ thr[1].rc = S21.second
            /\ thr[2].rc = S12.second /\ thr[2].rc = S21.first
            /\ \A i \in 1..Len(writes) :
                   writes[i][1] \in TargetsOf(thr[1].call)
                                    \cup TargetsOf(thr[2].call)

\* two circuit calls on different ports both succeeded, their four writes
\* alternating between the threads, on registers configured before
C12_Witness ==
    /\ BothDone /\ DisjointTargets
    /\ thr[1].rc = XAIE_OK /\ thr[2].rc = XAIE_OK
    /\ regs0 # <<>>
    /\ Len(writes) = 4
    /\ writes[1][1] \in TargetsOf(thr[1].call)
    /\ writes[2][1] \in TargetsOf(thr[2].call)
    /\ writes[3][1] \in TargetsOf(thr[1].call)
    /\ writes[4][1] \in TargetsOf(thr[2].call)
    /\ regs # regs0

---------------------------------------------------------------------------
(* C13 *)

\* the slot number is not one a slave port has
SlotNumBad(c) == ~(c.SlotNum < AieTileStrmSw.NumSlaveSlots)

\* C13 as claimed: of a slave-slot call, an out-of-range field is reported
\* as InvalidArgs whatever else is wrong; otherwise an unresolvable tile is
\* reported as InvalidTile; and the port error is reported only when the
\* fields and the tile pass.
C13_FieldTilePort ==
    Returned(SlotOps) =>
        /\ FieldBad(call) => rc = XAIE_INVALID_ARGS
        /\ (~FieldBad(call) /\ TileBad(call)) => rc = XAIE_INVALID_TILE
        /\ rc = XAIE_ERR_STREAM_PORT => (~FieldBad(call) /\ ~TileBad(call))

\* C13: of a slave-slot call, a null or not-ready device is reported as
\* InvalidArgs before anything else is looked at; on a ready device an
\* out-of-range field is reported as InvalidArgs even if the tile is
\* unresolvable or the port or slot is out of range; otherwise an
\* unresolvable tile is reported as InvalidTile even if the port or slot is
\* out of range; and only when the device, the fields and the tile pass is
\* an out-of-range port type, port number or slot number reported, as the
\* stream-port error.  A call that reports an error writes nothing.
C13_SlotErrorOrder ==
    Returned(SlotOps) =>
        /\ DevBad => rc = XAIE_INVALID_ARGS
        /\ FieldBad(call) => rc = XAIE_INVALID_ARGS
        /\ (~DevBad /\ ~FieldBad(call) /\ TileBad(call))
               => rc = XAIE_INVALID_TILE
        /\ (~DevBad /\ ~FieldBad(call) /\ ~TileBad(call)
            /\ (TypeBad(call) \/ PortBad(call)))
               => rc = XAIE_ERR_STREAM_PORT
        /\ rc = XAIE_ERR_STREAM_PORT
               => (~DevBad /\ ~FieldBad(call) /\ ~TileBad(call)
                   /\ (TypeBad(call) \/ PortBad(call)))
        /\ rc # XAIE_OK => writes = <<>>

\* on a ready device a slot enable call with an out-of-range field, an
\* unresolvable tile and an out-of-range slot number returned InvalidArgs
C13_Witness ==
    /\ Returned({"XAie_StrmPktSwSlaveSlotEnable"})
    /\ ~DevBad
    /\ FieldBad(call) /\ TileBad(call) /\ SlotNumBad(call)
    /\ rc = XAIE_INVALID_ARGS /\ writes = <<>>

=============================================================================
